---- MODULE Spec2Model ----
(***************************************************************************)
(* A model of src/helpers.js of the Adobe Campaign Standard SDK: the four  *)
(* exported helpers reduceError, createRequestOptions, requestInterceptor  *)
(* and responseInterceptor, over a heap of JavaScript objects (so that     *)
(* "the same reference" and "unmodified" mean something) and a log that    *)
(* records every logger.debug call.  last describes the latest call, and   *)
(* tally counts the interceptor calls made so far.                         *)
(***************************************************************************)
EXTENDS Integers, Sequences, FiniteSets, TLC

VARIABLES heap, log, calls, last, tally

vars == <<heap, log, calls, last, tally>>

\* The number of helper calls a behaviour makes.
MaxCalls == 2

(***************************************************************************)
(* JavaScript values.  Every value is a record of the same shape: t is the *)
(* type tag, n the number / boolean (0, 1) / heap address, s the string.   *)
(***************************************************************************)
Undef == [t |-> "undefined", n |-> 0, s |-> ""]

Null == [t |-> "null", n |-> 0, s |-> ""]

Bool(b) == [t |-> "boolean", n |-> IF b THEN 1 ELSE 0, s |-> ""]

Num(i) == [t |-> "number", n |-> i, s |-> ""]

Str(x) == [t |-> "string", n |-> 0, s |-> x]

Ref(a) == [t |-> "ref", n |-> a, s |-> ""]

(***************************************************************************)
(* Heap objects: a plain object is an ordered list of keys with their      *)
(* values, an array a list of values, a Buffer a list of byte values.      *)
(***************************************************************************)
Obj(ks, vs) == [k |-> "object", keys |-> ks, vals |-> vs]

Arr(vs) == [k |-> "array", keys |-> <<>>, vals |-> vs]

Buf(bs) == [k |-> "buffer", keys |-> <<>>, vals |-> [i \in 1..Len(bs) |-> Num(bs[i])]]

RECURSIVE IndexOf(_, _, _)
\* The position of key in ks at or after i, 0 when it is absent.
IndexOf(ks, key, i) ==
  IF i > Len(ks) THEN 0
  ELSE IF ks[i] = key THEN i
  ELSE IndexOf(ks, key, i + 1)

\* o[key] for an object o of the heap: undefined when o has no such key.
GetProp(o, key) ==
  LET i == IndexOf(o.keys, key, 1)
  IN  IF o.k = "object" /\ i > 0 THEN o.vals[i] ELSE Undef

\* v.key for a value that is neither null nor undefined: a primitive has
\* none of the properties the helpers read.
Get(h, v, key) ==
  IF v.t = "ref" THEN GetProp(h[v.n], key) ELSE Undef

\* Property access on null or undefined raises a TypeError.
Nullish(v) == v.t \in {"undefined", "null"}

\* ToBoolean: undefined, null, false, 0 and "" are falsy, all else truthy.
Truthy(v) ==
  CASE v.t = "undefined" -> FALSE
    [] v.t = "null" -> FALSE
    [] v.t = "boolean" -> v.n = 1
    [] v.t = "number" -> v.n # 0
    [] v.t = "string" -> v.s # ""
    [] OTHER -> TRUE

(***************************************************************************)
(* Strings.                                                                *)
(***************************************************************************)
CharAt(s, i) == SubSeq(s, i, i)

Digit(d) == CharAt("0123456789", d + 1)

RECURSIVE NatToString(_)
NatToString(i) ==
  IF i < 10 THEN Digit(i) ELSE NatToString(i \div 10) \o Digit(i % 10)

\* Number::toString for the integers of the model.
NumberToString(i) ==
  IF i < 0 THEN "-" \o NatToString(0 - i) ELSE NatToString(i)

RECURSIVE Join(_, _)
\* The strings of parts with sep between them.
Join(parts, sep) ==
  IF Len(parts) = 0 THEN ""
  ELSE IF Len(parts) = 1 THEN parts[1]
  ELSE parts[1] \o sep \o Join(Tail(parts), sep)

\* QuoteJSONString's escape of one character.
EscapeChar(c) ==
  CASE c = "\"" -> "\\\""
    [] c = "\\" -> "\\\\"
    [] c = "\n" -> "\\n"
    [] c = "\t" -> "\\t"
    [] c = "\r" -> "\\r"
    [] c = "\f" -> "\\f"
    [] OTHER -> c

RECURSIVE EscapeFrom(_, _)
EscapeFrom(s, i) ==
  IF i > Len(s) THEN "" ELSE EscapeChar(CharAt(s, i)) \o EscapeFrom(s, i + 1)

\* QuoteJSONString: the string in double quotes, its characters escaped.
Quote(s) == "\"" \o EscapeFrom(s, 1) \o "\""

(***************************************************************************)
(* JSON.stringify(value, null, space) as ECMAScript defines it             *)
(* (SerializeJSONProperty, SerializeJSONObject, SerializeJSONArray): the   *)
(* outcome is a string, undefined, or a TypeError on a cyclic structure.   *)
(* gap is the indentation unit ("" for no space argument, two blanks for   *)
(* space = 2), indent the indentation of the enclosing structure, stack    *)
(* the addresses of the objects being serialized.                          *)
(***************************************************************************)
SerString(x) == [st |-> "string", s |-> x]

SerUndefined == [st |-> "undefined", s |-> ""]

SerThrow == [st |-> "throw", s |-> ""]

\* The text of a structure from the texts of its members.
Wrap(open, close, partial, indent, gap) ==
  IF Len(partial) = 0 THEN open \o close
  ELSE IF gap = "" THEN open \o Join(partial, ",") \o close
  ELSE open \o "\n" \o indent \o gap
            \o Join(partial, ",\n" \o indent \o gap)
            \o "\n" \o indent \o close

\* "key":value, with a blank after the colon when indenting.
Member(key, text, gap) ==
  Quote(key) \o ":" \o (IF gap = "" THEN "" ELSE " ") \o text

RECURSIVE SerializeJSONProperty(_, _, _, _, _)
RECURSIVE ObjectPartial(_, _, _, _, _, _)
RECURSIVE ArrayPartial(_, _, _, _, _, _)

\* The members of object o from its i-th key on: a member whose value
\* serializes to undefined is left out.
ObjectPartial(h, o, i, stack, indent, gap) ==
  IF i > Len(o.keys) THEN [st |-> "ok", parts |-> <<>>]
  ELSE LET p == SerializeJSONProperty(h, o.vals[i], stack, indent, gap)
       IN  IF p.st = "throw" THEN [st |-> "throw", parts |-> <<>>]
           ELSE LET rest == ObjectPartial(h, o, i + 1, stack, indent, gap)
                IN  IF rest.st = "throw" \/ p.st = "undefined" THEN rest
                    ELSE [st |-> "ok",
                          parts |-> <<Member(o.keys[i], p.s, gap)>> \o rest.parts]

\* The elements of array o from the i-th on: an element that serializes to
\* undefined is written null.
ArrayPartial(h, o, i, stack, indent, gap) ==
  IF i > Len(o.vals) THEN [st |-> "ok", parts |-> <<>>]
  ELSE LET p == SerializeJSONProperty(h, o.vals[i], stack, indent, gap)
       IN  IF p.st = "throw" THEN [st |-> "throw", parts |-> <<>>]
           ELSE LET rest == ArrayPartial(h, o, i + 1, stack, indent, gap)
                IN  IF rest.st = "throw" THEN rest
                    ELSE [st |-> "ok",
                          parts |-> <<IF p.st = "undefined" THEN "null" ELSE p.s>>
                                      \o rest.parts]

\* Buffer.prototype.toJSON gives {type: 'Buffer', data: [bytes]}, which is
\* what JSON.stringify serializes in place of the Buffer.
SerializeBuffer(h, o, indent, gap) ==
  LET data == ArrayPartial(h, o, 1, {}, indent \o gap \o gap, gap)
  IN  Wrap("{", "}",
           <<Member("type", Quote("Buffer"), gap),
             Member("data", Wrap("[", "]", data.parts, indent \o gap, gap), gap)>>,
           indent, gap)

SerializeJSONProperty(h, v, stack, indent, gap) ==
  CASE v.t = "undefined" -> SerUndefined
    [] v.t = "null" -> SerString("null")
    [] v.t = "boolean" -> SerString(IF v.n = 1 THEN "true" ELSE "false")
    [] v.t = "number" -> SerString(NumberToString(v.n))
    [] v.t = "string" -> SerString(Quote(v.s))
    [] v.t = "ref" ->
         LET o == h[v.n]
         IN  IF o.k = "buffer" THEN SerString(SerializeBuffer(h, o, indent, gap))
             ELSE IF v.n \in stack THEN SerThrow
             ELSE LET partial ==
                        IF o.k = "array"
                        THEN ArrayPartial(h, o, 1, stack \cup {v.n}, indent \o gap, gap)
                        ELSE ObjectPartial(h, o, 1, stack \cup {v.n}, indent \o gap, gap)
                  IN  IF partial.st = "throw" THEN SerThrow
                      ELSE IF o.k = "array"
                      THEN SerString(Wrap("[", "]", partial.parts, indent, gap))
                      ELSE SerString(Wrap("{", "}", partial.parts, indent, gap))

\* JSON.stringify(v) and JSON.stringify(v, null, 2).
JSONStringify(h, v, gap) == SerializeJSONProperty(h, v, {}, "", gap)

\* The gap JSON.stringify derives from the space argument 2.
Gap2 == "  "

\* An outcome of JSON.stringify inside a template literal: undefined reads
\* "undefined".
TemplateOfSer(r) == IF r.st = "undefined" THEN "undefined" ELSE r.s

(***************************************************************************)
(* JSON.parse(text): a recursive-descent reading of the JSON grammar.  A   *)
(* parse outcome is ok or a SyntaxError; pos is the position after what    *)
(* was read, h the heap with the objects and arrays the parse created, v   *)
(* the value read.  The numbers of the model are integers and its strings  *)
(* hold no \b or \uXXXX escape, so the texts of the model hold none.       *)
(***************************************************************************)
ParseFail == [ok |-> FALSE, pos |-> 0, h |-> <<>>, v |-> Undef]

Parsed(p, hp, val) == [ok |-> TRUE, pos |-> p, h |-> hp, v |-> val]

\* The character at pos, "" at the end of the text.
Peek(txt, pos) == IF pos <= Len(txt) THEN CharAt(txt, pos) ELSE ""

StartsWith(txt, pos, word) ==
  /\ pos + Len(word) - 1 <= Len(txt)
  /\ SubSeq(txt, pos, pos + Len(word) - 1) = word

IsWS(c) == c \in {" ", "\n", "\t", "\r"}

IsDigit(c) == \E d \in 0..9 : Digit(d) = c

DigitVal(c) == CHOOSE d \in 0..9 : Digit(d) = c

RECURSIVE SkipWS(_, _)
SkipWS(txt, pos) ==
  IF IsWS(Peek(txt, pos)) THEN SkipWS(txt, pos + 1) ELSE pos

\* The character an escape sequence \e stands for, "" for none.
Unescape(e) ==
  CASE e = "\"" -> "\""
    [] e = "\\" -> "\\"
    [] e = "/" -> "/"
    [] e = "n" -> "\n"
    [] e = "t" -> "\t"
    [] e = "r" -> "\r"
    [] e = "f" -> "\f"
    [] OTHER -> ""

RECURSIVE ParseChars(_, _)
\* The characters of a string literal from pos (after its opening quote) to
\* its closing quote: an unescaped control character or the end of the
\* text before the closing quote is a SyntaxError.
ParseChars(txt, pos) ==
  LET c == Peek(txt, pos)
  IN  IF c = "" \/ c \in {"\n", "\t", "\r", "\f"} THEN [ok |-> FALSE, pos |-> 0, s |-> ""]
      ELSE IF c = "\"" THEN [ok |-> TRUE, pos |-> pos + 1, s |-> ""]
      ELSE IF c = "\\"
      THEN LET u == Unescape(Peek(txt, pos + 1))
               r == ParseChars(txt, pos + 2)
           IN  IF u = "" \/ ~r.ok THEN [ok |-> FALSE, pos |-> 0, s |-> ""]
               ELSE [r EXCEPT !.s = u \o r.s]
      ELSE LET r == ParseChars(txt, pos + 1)
           IN  IF r.ok THEN [r EXCEPT !.s = c \o r.s] ELSE r

RECURSIVE ParseDigits(_, _, _)
\* The digits from pos on, added to the number acc read so far.
ParseDigits(txt, pos, acc) ==
  IF IsDigit(Peek(txt, pos))
  THEN ParseDigits(txt, pos + 1, 10 * acc + DigitVal(Peek(txt, pos)))
  ELSE [pos |-> pos, n |-> acc]

\* An integer literal: an optional minus, then 0 or a digit string that
\* does not start with 0.
ParseNumber(txt, pos, h) ==
  LET neg == Peek(txt, pos) = "-"
      p == IF neg THEN pos + 1 ELSE pos
      c == Peek(txt, p)
  IN  IF ~IsDigit(c) THEN ParseFail
      ELSE LET d == IF c = "0" THEN [pos |-> p + 1, n |-> 0]
                    ELSE ParseDigits(txt, p, 0)
           IN  Parsed(d.pos, h, Num(IF neg THEN 0 - d.n ELSE d.n))

\* o with key set to val: a repeated key keeps its place and takes the
\* later value.
SetProp(o, key, val) ==
  LET i == IndexOf(o.keys, key, 1)
  IN  IF i > 0 THEN [o EXCEPT !.vals[i] = val]
      ELSE [o EXCEPT !.keys = Append(@, key), !.vals = Append(@, val)]

\* The value obj placed in a new cell of the heap.
Alloc(h, obj) == [h |-> Append(h, obj), v |-> Ref(Len(h) + 1)]

RECURSIVE ParseValue(_, _, _)
RECURSIVE ParseMembers(_, _, _, _)
RECURSIVE ParseElements(_, _, _, _)

\* The members of an object from pos on, o holding those read so far.
ParseMembers(txt, pos, h, o) ==
  LET p1 == SkipWS(txt, pos)
  IN  IF Peek(txt, p1) # "\"" THEN ParseFail
      ELSE LET key == ParseChars(txt, p1 + 1)
           IN  IF ~key.ok THEN ParseFail
               ELSE LET p2 == SkipWS(txt, key.pos)
                    IN  IF Peek(txt, p2) # ":" THEN ParseFail
                        ELSE LET val == ParseValue(txt, p2 + 1, h)
                             IN  IF ~val.ok THEN ParseFail
                                 ELSE LET p3 == SkipWS(txt, val.pos)
                                          o2 == SetProp(o, key.s, val.v)
                                          a == Alloc(val.h, o2)
                                      IN  CASE Peek(txt, p3) = "," ->
                                                 ParseMembers(txt, p3 + 1, val.h, o2)
                                            [] Peek(txt, p3) = "}" ->
                                                 Parsed(p3 + 1, a.h, a.v)
                                            [] OTHER -> ParseFail

\* The elements of an array from pos on, vs holding those read so far.
ParseElements(txt, pos, h, vs) ==
  LET val == ParseValue(txt, pos, h)
  IN  IF ~val.ok THEN ParseFail
      ELSE LET p == SkipWS(txt, val.pos)
               vs2 == Append(vs, val.v)
               a == Alloc(val.h, Arr(vs2))
           IN  CASE Peek(txt, p) = "," -> ParseElements(txt, p + 1, val.h, vs2)
                 [] Peek(txt, p) = "]" -> Parsed(p + 1, a.h, a.v)
                 [] OTHER -> ParseFail

ParseValue(txt, pos0, h) ==
  LET pos == SkipWS(txt, pos0)
      c == Peek(txt, pos)
      inner == SkipWS(txt, pos + 1)
  IN  CASE c = "{" ->
             IF Peek(txt, inner) = "}"
             THEN LET a == Alloc(h, Obj(<<>>, <<>>)) IN Parsed(inner + 1, a.h, a.v)
             ELSE ParseMembers(txt, inner, h, Obj(<<>>, <<>>))
        [] c = "[" ->
             IF Peek(txt, inner) = "]"
             THEN LET a == Alloc(h, Arr(<<>>)) IN Parsed(inner + 1, a.h, a.v)
             ELSE ParseElements(txt, inner, h, <<>>)
        [] c = "\"" ->
             LET r == ParseChars(txt, pos + 1)
             IN  IF r.ok THEN Parsed(r.pos, h, Str(r.s)) ELSE ParseFail
        [] StartsWith(txt, pos, "true") -> Parsed(pos + 4, h, Bool(TRUE))
        [] StartsWith(txt, pos, "false") -> Parsed(pos + 5, h, Bool(FALSE))
        [] StartsWith(txt, pos, "null") -> Parsed(pos + 4, h, Null)
        [] c = "-" \/ IsDigit(c) -> ParseNumber(txt, pos, h)
        [] OTHER -> ParseFail

\* JSON.parse(txt): one value, blanks around it, and nothing else.
JSONParse(h, txt) ==
  LET r == ParseValue(txt, 1, h)
  IN  IF r.ok /\ SkipWS(txt, r.pos) = Len(txt) + 1 THEN r ELSE ParseFail

(***************************************************************************)
(* String conversions the helpers apply.                                   *)
(***************************************************************************)
\* The printable ASCII characters from code 32 to code 95, and from code 97
\* to code 126.
AsciiLow ==
  " !\"#$%&'()*+,-./0123456789:;<=>?@ABCDEFGHIJKLMNOPQRSTUVWXYZ[\\]^_"

AsciiHigh == "abcdefghijklmnopqrstuvwxyz{|}~"

\* Stands for the one character U+FFFD that a UTF-8 decoder writes for a
\* byte that is part of no valid sequence.
ReplacementChar == "<U+FFFD>"

\* The character of one byte of a Buffer decoded as UTF-8, for the bytes
\* the buffers of the model hold: ASCII bytes, and the byte 255, which is
\* part of no UTF-8 sequence.
DecodeByte(b) ==
  CASE b >= 32 /\ b <= 95 -> CharAt(AsciiLow, b - 31)
    [] b >= 97 /\ b <= 126 -> CharAt(AsciiHigh, b - 96)
    [] b = 10 -> "\n"
    [] b = 9 -> "\t"
    [] b = 13 -> "\r"
    [] b = 255 -> ReplacementChar

RECURSIVE DecodeUtf8(_, _)
\* buf.toString('utf-8') from the i-th byte on.
DecodeUtf8(bytes, i) ==
  IF i > Len(bytes) THEN "" ELSE DecodeByte(bytes[i].n) \o DecodeUtf8(bytes, i + 1)

RECURSIVE StringOf(_, _)
RECURSIVE JoinElements(_, _, _)

\* Array.prototype.join(','): null and undefined elements read "".  The
\* arrays of the model are not cyclic.
JoinElements(h, vs, i) ==
  IF i > Len(vs) THEN ""
  ELSE (IF Nullish(vs[i]) THEN "" ELSE StringOf(h, vs[i]))
       \o (IF i < Len(vs) THEN "," ELSE "")
       \o JoinElements(h, vs, i + 1)

\* The abstract operation ToString, the conversion a template literal applies to a value.
StringOf(h, v) ==
  CASE v.t = "undefined" -> "undefined"
    [] v.t = "null" -> "null"
    [] v.t = "boolean" -> IF v.n = 1 THEN "true" ELSE "false"
    [] v.t = "number" -> NumberToString(v.n)
    [] v.t = "string" -> v.s
    [] v.t = "ref" ->
         CASE h[v.n].k = "object" -> "[object Object]"
           [] h[v.n].k = "array" -> JoinElements(h, h[v.n].vals, 1)
           [] h[v.n].k = "buffer" -> DecodeUtf8(h[v.n].vals, 1)

\* v.toString('utf-8'): a TypeError on null and undefined, which have no
\* toString; a RangeError on a number, whose toString takes 'utf-8' for a
\* radix; the decoded bytes of a Buffer; StringOf(v) otherwise.
ToStringUtf8(h, v) ==
  IF Nullish(v) \/ v.t = "number" THEN [threw |-> TRUE, s |-> ""]
  ELSE [threw |-> FALSE, s |-> StringOf(h, v)]

(***************************************************************************)
(* The helpers.  The outcome of a call from heap h: whether it threw, the  *)
(* value returned, the heap after it, the messages it gave logger.debug,   *)
(* in order, and, for responseInterceptor, whether res.text.toString was   *)
(* called (decoded), whether the catch block ran (caught) and the value    *)
(* of the local variable text when the call ended.                         *)
(***************************************************************************)
Return(h, v, lines) ==
  [threw |-> FALSE, ret |-> v, heap |-> h, out |-> lines,
   decoded |-> FALSE, caught |-> FALSE, text |-> Undef]

Throw(h, lines) ==
  [threw |-> TRUE, ret |-> Undef, heap |-> h, out |-> lines,
   decoded |-> FALSE, caught |-> FALSE, text |-> Undef]

\* reduceError with the body written by ToString instead of JSON.stringify.
reduceErrorPlainBody(h, arg) ==
  LET a == IF arg.t = "undefined" THEN Alloc(h, Obj(<<>>, <<>>)) ELSE [h |-> h, v |-> arg]
      response == Get(a.h, a.v, "response")
      status == Get(a.h, response, "status")
      statusText == Get(a.h, response, "statusText")
      body == Get(a.h, response, "body")
  IN  IF Nullish(a.v) THEN Throw(a.h, <<>>)
      ELSE IF Truthy(response) /\ Truthy(status) /\ Truthy(statusText) /\ Truthy(body)
      THEN Return(a.h,
                  Str(StringOf(a.h, status) \o " - " \o StringOf(a.h, statusText)
                      \o " (" \o StringOf(a.h, body) \o ")"),
                  <<>>)
      ELSE Return(a.h, a.v, <<>>)

\* reduceError without the test of response.body.
reduceErrorNoBodyTest(h, arg) ==
  LET a == IF arg.t = "undefined" THEN Alloc(h, Obj(<<>>, <<>>)) ELSE [h |-> h, v |-> arg]
      response == Get(a.h, a.v, "response")
      status == Get(a.h, response, "status")
      statusText == Get(a.h, response, "statusText")
      json == JSONStringify(a.h, Get(a.h, response, "body"), "")
  IN  IF Nullish(a.v) THEN Throw(a.h, <<>>)
      ELSE IF Truthy(response) /\ Truthy(status) /\ Truthy(statusText)
      THEN Return(a.h,
                  Str(StringOf(a.h, status) \o " - " \o StringOf(a.h, statusText)
                      \o " (" \o TemplateOfSer(json) \o ")"),
                  <<>>)
      ELSE Return(a.h, a.v, <<>>)

\* function reduceError (error = {}): the default applies to undefined
\* only, and reading .response of null raises a TypeError.
reduceError(h, arg) ==
  LET a == IF arg.t = "undefined" THEN Alloc(h, Obj(<<>>, <<>>)) ELSE [h |-> h, v |-> arg]
      error == a.v
      response == Get(a.h, error, "response")
      status == Get(a.h, response, "status")
      statusText == Get(a.h, response, "statusText")
      body == Get(a.h, response, "body")
      json == JSONStringify(a.h, body, "")
  IN  IF Nullish(error) THEN Throw(a.h, <<>>)
      ELSE IF Truthy(response) /\ Truthy(status) /\ Truthy(statusText) /\ Truthy(body)
      THEN IF json.st = "throw" THEN Throw(a.h, <<>>)
           ELSE Return(a.h,
                       Str(StringOf(a.h, status) \o " - " \o StringOf(a.h, statusText)
                           \o " (" \o TemplateOfSer(json) \o ")"),
                       <<>>)
      ELSE Return(a.h, error, <<>>)

\* createRequestOptions with the two credentials in each other's place.
createRequestOptionsSwapped(h, params) ==
  LET given == Get(h, params, "body")
      body == IF given.t = "undefined" THEN Alloc(h, Obj(<<>>, <<>>)) ELSE [h |-> h, v |-> given]
      bearer == Alloc(body.h, Obj(<<"value">>, <<Get(h, params, "apiKey")>>))
      key == Alloc(bearer.h, Obj(<<"value">>, <<Get(h, params, "accessToken")>>))
      authorized == Alloc(key.h, Obj(<<"BearerAuth", "ApiKeyAuth">>, <<bearer.v, key.v>>))
      securities == Alloc(authorized.h, Obj(<<"authorized">>, <<authorized.v>>))
      serverVariables == Alloc(securities.h, Obj(<<"ORGANIZATION">>, <<Get(h, params, "tenantId")>>))
      options == Alloc(serverVariables.h,
                       Obj(<<"requestBody", "securities", "serverVariables">>,
                           <<body.v, securities.v, serverVariables.v>>))
  IN  IF Nullish(params) THEN Throw(h, <<>>)
      ELSE Return(options.h, options.v, <<>>)

\* createRequestOptions refusing a tenantId, apiKey or accessToken that is
\* not a non-empty string.
createRequestOptionsValidating(h, params) ==
  LET Valid(v) == v.t = "string" /\ v.s # ""
      given == Get(h, params, "body")
      body == IF given.t = "undefined" THEN Alloc(h, Obj(<<>>, <<>>)) ELSE [h |-> h, v |-> given]
      bearer == Alloc(body.h, Obj(<<"value">>, <<Get(h, params, "accessToken")>>))
      key == Alloc(bearer.h, Obj(<<"value">>, <<Get(h, params, "apiKey")>>))
      authorized == Alloc(key.h, Obj(<<"BearerAuth", "ApiKeyAuth">>, <<bearer.v, key.v>>))
      securities == Alloc(authorized.h, Obj(<<"authorized">>, <<authorized.v>>))
      serverVariables == Alloc(securities.h, Obj(<<"ORGANIZATION">>, <<Get(h, params, "tenantId")>>))
      options == Alloc(serverVariables.h,
                       Obj(<<"requestBody", "securities", "serverVariables">>,
                           <<body.v, securities.v, serverVariables.v>>))
  IN  IF \/ Nullish(params)
         \/ ~Valid(Get(h, params, "tenantId"))
         \/ ~Valid(Get(h, params, "apiKey"))
         \/ ~Valid(Get(h, params, "accessToken"))
      THEN Throw(h, <<>>)
      ELSE Return(options.h, options.v, <<>>)

\* function createRequestOptions ({ tenantId, apiKey, accessToken, body = {} }):
\* destructuring null or undefined raises a TypeError; body takes the
\* default when it is undefined, and only then.
createRequestOptions(h, params) ==
  LET tenantId == Get(h, params, "tenantId")
      apiKey == Get(h, params, "apiKey")
      accessToken == Get(h, params, "accessToken")
      given == Get(h, params, "body")
      body == IF given.t = "undefined" THEN Alloc(h, Obj(<<>>, <<>>)) ELSE [h |-> h, v |-> given]
      bearer == Alloc(body.h, Obj(<<"value">>, <<accessToken>>))
      key == Alloc(bearer.h, Obj(<<"value">>, <<apiKey>>))
      authorized == Alloc(key.h, Obj(<<"BearerAuth", "ApiKeyAuth">>, <<bearer.v, key.v>>))
      securities == Alloc(authorized.h, Obj(<<"authorized">>, <<authorized.v>>))
      serverVariables == Alloc(securities.h, Obj(<<"ORGANIZATION">>, <<tenantId>>))
      options == Alloc(serverVariables.h,
                       Obj(<<"requestBody", "securities", "serverVariables">>,
                           <<body.v, securities.v, serverVariables.v>>))
  IN  IF Nullish(params) THEN Throw(h, <<>>)
      ELSE Return(options.h, options.v, <<>>)

\* requestInterceptor returning what it logged instead of req.
requestInterceptorReturnsJson(h, req) ==
  LET json == JSONStringify(h, req, Gap2)
  IN  IF json.st = "throw" THEN Throw(h, <<>>)
      ELSE Return(h, Str(TemplateOfSer(json)), <<"REQUEST:\n " \o TemplateOfSer(json)>>)

\* function requestInterceptor (req): JSON.stringify raises before
\* anything is logged when req is cyclic.
requestInterceptor(h, req) ==
  LET json == JSONStringify(h, req, Gap2)
  IN  IF json.st = "throw" THEN Throw(h, <<>>)
      ELSE Return(h, req, <<"REQUEST:\n " \o TemplateOfSer(json)>>)

\* The block of responseInterceptor under if (res.ok): the messages logged
\* and the local variable text.  The objects JSON.parse creates are dropped
\* when the block ends, so the heap is as it was.
LogData(h, res) ==
  LET decodedText == ToStringUtf8(h, Get(h, res, "text"))
      parsed == JSONParse(h, decodedText.s)
  IN  IF decodedText.threw
      THEN [caught |-> TRUE, text |-> Undef, out |-> <<"DATA\n " \o StringOf(h, Undef)>>]
      ELSE IF parsed.ok
      THEN [caught |-> FALSE, text |-> Str(decodedText.s),
            out |-> <<"DATA\n, " \o TemplateOfSer(JSONStringify(parsed.h, parsed.v, Gap2))>>]
      ELSE [caught |-> TRUE, text |-> Str(decodedText.s),
            out |-> <<"DATA\n " \o decodedText.s>>]

\* responseInterceptor without the try block: a failure to decode or to
\* parse the text leaves the function.
responseInterceptorNoCatch(h, res) ==
  LET json == JSONStringify(h, res, Gap2)
      response == <<"RESPONSE:\n " \o TemplateOfSer(json)>>
      data == LogData(h, res)
  IN  IF json.st = "throw" THEN Throw(h, <<>>)
      ELSE IF Nullish(res) THEN Throw(h, response)
      ELSE IF Truthy(Get(h, res, "ok"))
      THEN IF data.caught
           THEN [Throw(h, response) EXCEPT !.decoded = TRUE, !.text = data.text]
           ELSE [Return(h, res, response \o data.out)
                   EXCEPT !.decoded = TRUE, !.text = data.text]
      ELSE Return(h, res, response)

\* responseInterceptor with an empty catch block: nothing is logged when
\* the text cannot be decoded or parsed.
responseInterceptorSilentCatch(h, res) ==
  LET json == JSONStringify(h, res, Gap2)
      response == <<"RESPONSE:\n " \o TemplateOfSer(json)>>
      data == LogData(h, res)
  IN  IF json.st = "throw" THEN Throw(h, <<>>)
      ELSE IF Nullish(res) THEN Throw(h, response)
      ELSE IF Truthy(Get(h, res, "ok"))
      THEN [Return(h, res, IF data.caught THEN response ELSE response \o data.out)
              EXCEPT !.decoded = TRUE, !.caught = data.caught, !.text = data.text]
      ELSE Return(h, res, response)

\* responseInterceptor without the test of res.ok.
responseInterceptorIgnoresOk(h, res) ==
  LET json == JSONStringify(h, res, Gap2)
      response == <<"RESPONSE:\n " \o TemplateOfSer(json)>>
      data == LogData(h, res)
  IN  IF json.st = "throw" THEN Throw(h, <<>>)
      ELSE IF Nullish(res) THEN Throw(h, response)
      ELSE [Return(h, res, response \o data.out)
              EXCEPT !.decoded = TRUE, !.caught = data.caught, !.text = data.text]

\* function responseInterceptor (res): the RESPONSE message and the test
\* of res.ok stand outside the try block.
responseInterceptor(h, res) ==
  LET json == JSONStringify(h, res, Gap2)
      response == <<"RESPONSE:\n " \o TemplateOfSer(json)>>
      data == LogData(h, res)
  IN  IF json.st = "throw" THEN Throw(h, <<>>)
      ELSE IF Nullish(res) THEN Throw(h, response)
      ELSE IF Truthy(Get(h, res, "ok"))
      THEN [Return(h, res, response \o data.out)
              EXCEPT !.decoded = TRUE, !.caught = data.caught, !.text = data.text]
      ELSE Return(h, res, response)

(***************************************************************************)
(* The objects the callers hold when the module is loaded: the values the  *)
(* helpers are called with.  The address of an object is its position.     *)
(***************************************************************************)
Response(status, statusText, body) ==
  Obj(<<"status", "statusText", "body">>, <<status, statusText, body>>)

ErrorOf(a) == Obj(<<"response">>, <<Ref(a)>>)

Params(tenantId, apiKey, accessToken) ==
  Obj(<<"tenantId", "apiKey", "accessToken">>, <<tenantId, apiKey, accessToken>>)

ParamsWithBody(tenantId, apiKey, accessToken, body) ==
  Obj(<<"tenantId", "apiKey", "accessToken", "body">>,
      <<tenantId, apiKey, accessToken, body>>)

OkText(ok, text) == Obj(<<"ok", "text">>, <<ok, text>>)

InitHeap ==
  << Obj(<<"message">>, <<Str("gone")>>),                               \*  1
     Arr(<<Num(1), Null, Str("a")>>),                                   \*  2
     Response(Num(404), Str("Not Found"), Ref(1)),                      \*  3
     Obj(<<"message", "response">>, <<Str("Request failed"), Ref(3)>>), \*  4
     Response(Str("500"), Str("Server Error"), Str("bad \"x\"")),       \*  5
     ErrorOf(5),                                                        \*  6
     Response(Num(500), Str("Internal"), Ref(2)),                       \*  7
     ErrorOf(7),                                                        \*  8
     Response(Num(0), Str("Not Found"), Ref(1)),                        \*  9
     ErrorOf(9),                                                        \* 10
     Response(Num(404), Str(""), Ref(1)),                               \* 11
     ErrorOf(11),                                                       \* 12
     Response(Num(404), Str("Not Found"), Null),                        \* 13
     ErrorOf(13),                                                       \* 14
     Response(Num(404), Str("Not Found"), Str("")),                     \* 15
     ErrorOf(15),                                                       \* 16
     Obj(<<"status", "statusText">>, <<Num(404), Str("Not Found")>>),   \* 17
     ErrorOf(17),                                                       \* 18
     Obj(<<"statusText", "body">>, <<Str("Not Found"), Ref(1)>>),       \* 19
     ErrorOf(19),                                                       \* 20
     Obj(<<"message">>, <<Str("socket hang up")>>),                     \* 21
     Obj(<<"response">>, <<Null>>),                                     \* 22
     Obj(<<"x">>, <<Num(1)>>),                                          \* 23
     Params(Str("T"), Str("K"), Str("A")),                              \* 24
     ParamsWithBody(Str("T"), Str("K"), Str("A"), Ref(23)),             \* 25
     ParamsWithBody(Str(""), Num(42), Null, Null),                      \* 26
     Obj(<<>>, <<>>),                                                   \* 27
     ParamsWithBody(Str("acme"), Str("key-1"), Str("tok"), Str("raw")), \* 28
     Obj(<<"x-api-key">>, <<Str("K")>>),                                \* 29
     Obj(<<"url", "method", "headers">>,
         <<Str("https://mc.adobe.io/T/campaign/profile"), Str("GET"), Ref(29)>>), \* 30
     Obj(<<"method", "body">>, <<Str("POST"), Ref(32)>>),               \* 31
     Obj(<<"parent">>, <<Ref(31)>>),                                    \* 32
     Obj(<<"ok", "status", "text">>,
         <<Bool(TRUE), Num(200), Str("{\"a\":1}")>>),                   \* 33
     OkText(Bool(TRUE), Str("oops")),                                   \* 34
     Obj(<<"ok">>, <<Bool(TRUE)>>),                                     \* 35
     OkText(Bool(TRUE), Num(5)),                                        \* 36
     Buf(<<91, 49, 93>>),                                               \* 37
     OkText(Bool(TRUE), Ref(37)),                                       \* 38
     Buf(<<255, 123>>),                                                 \* 39
     OkText(Bool(TRUE), Ref(39)),                                       \* 40
     Obj(<<"ok", "status", "text">>,
         <<Bool(FALSE), Num(404), Str("{\"a\":1}")>>),                  \* 41
     Obj(<<"status", "text">>, <<Num(200), Str("{}")>>),                \* 42
     OkText(Bool(TRUE), Str("")),                                       \* 43
     OkText(Bool(TRUE), Str(" [1, {\"b\": null}] ")),                   \* 44
     OkText(Bool(TRUE), Null),                                          \* 45
     OkText(Bool(TRUE), Str("undefined")),                              \* 46
     Obj(<<"ok", "text", "self">>, <<Bool(TRUE), Str("{}"), Ref(47)>>), \* 47
     Obj(<<"ok", "self">>, <<Bool(FALSE), Ref(48)>>) >>                 \* 48

Refs(as) == {Ref(a) : a \in as}

\* What callers pass to reduceError: nothing, null, a string, errors with
\* and without a response, and a response itself.
ErrorInputs ==
  {Undef, Null, Str("boom")} \cup Refs({3, 4, 6, 8, 10, 12, 14, 16, 18, 20, 21, 22})

\* What callers pass to createRequestOptions.
ParamsInputs == {Undef, Null, Str("T")} \cup Refs({24, 25, 26, 27, 28})

\* What the transport passes to requestInterceptor.
RequestInputs == {Undef, Str("ping")} \cup Refs({29, 30, 31})

\* What the transport passes to responseInterceptor.
ResponseInputs ==
  {Undef, Null, Num(7)}
    \cup Refs({33, 34, 35, 36, 38, 40, 41, 42, 43, 44, 45, 46, 47, 48})

NoCall ==
  [op |-> "none", arg |-> Undef, pre |-> <<>>, threw |-> FALSE, ret |-> Undef,
   decoded |-> FALSE, caught |-> FALSE, text |-> Undef]

\* A caller may pass on what the call before returned.
PrevRet == IF calls > 0 /\ ~last.threw THEN {last.ret} ELSE {}

Init ==
  /\ heap = InitHeap
  /\ log = <<>>
  /\ calls = 0
  /\ last = NoCall
  /\ tally = [hooks |-> 0, ok |-> 0, raised |-> 0]

\* The values JavaScript takes for false in a condition.
Falsy(v) == v \in {Undef, Null, Bool(FALSE), Num(0), Str("")}

\* The interceptor calls made so far (hooks), those among them that raised
\* (raised), and the calls of responseInterceptor that were given a
\* response with a truthy ok and returned (ok).
Tally(op, arg, r) ==
  LET hook == op \in {"requestInterceptor", "responseInterceptor"}
  IN  [hooks |-> tally.hooks + (IF hook THEN 1 ELSE 0),
       raised |-> tally.raised + (IF hook /\ r.threw THEN 1 ELSE 0),
       ok |-> tally.ok + (IF /\ op = "responseInterceptor"
                             /\ ~Falsy(Get(heap, arg, "ok"))
                             /\ ~r.threw
                          THEN 1 ELSE 0)]

\* One call of a helper: the heap and the log after it, and the record of
\* the call.  logger.debug appends its message to the log.
Call(op, arg, r) ==
  /\ calls < MaxCalls
  /\ heap' = r.heap
  /\ log' = log \o [i \in 1..Len(r.out) |-> [call |-> calls + 1, line |-> r.out[i]]]
  /\ calls' = calls + 1
  /\ last' = [op |-> op, arg |-> arg, pre |-> heap, threw |-> r.threw, ret |-> r.ret,
              decoded |-> r.decoded, caught |-> r.caught, text |-> r.text]
  /\ tally' = Tally(op, arg, r)

ReduceError ==
  \E arg \in ErrorInputs \cup PrevRet :
    Call("reduceError", arg, reduceError(heap, arg))

CreateRequestOptions ==
  \E arg \in ParamsInputs \cup PrevRet :
    Call("createRequestOptions", arg, createRequestOptions(heap, arg))

RequestInterceptor ==
  \E arg \in RequestInputs \cup PrevRet :
    Call("requestInterceptor", arg, requestInterceptor(heap, arg))

ResponseInterceptor ==
  \E arg \in ResponseInputs \cup PrevRet :
    Call("responseInterceptor", arg, responseInterceptor(heap, arg))

Next ==
  \/ ReduceError
  \/ CreateRequestOptions
  \/ RequestInterceptor
  \/ ResponseInterceptor

Spec == Init /\ [][Next]_vars

(***************************************************************************)
(* Vocabulary of the properties.                                           *)
(***************************************************************************)
\* error.response.status, .statusText and .body are all present and truthy.
Complete(h, error) ==
  LET r == Get(h, error, "response")
  IN  /\ ~Falsy(r)
      /\ ~Falsy(Get(h, r, "status"))
      /\ ~Falsy(Get(h, r, "statusText"))
      /\ ~Falsy(Get(h, r, "body"))

\* JSON.stringify(v) does not raise: v is not cyclic.
Serializable(h, v) == JSONStringify(h, v, "").st # "throw"

RECURSIVE At(_, _, _)
\* v.k1.k2... for the keys of path, undefined when a step is missing.
At(h, v, path) ==
  IF Len(path) = 0 THEN v ELSE At(h, Get(h, v, Head(path)), Tail(path))

\* The messages the latest call gave the logger, in order.
LastLines == SelectSeq(log, LAMBDA e : e.call = calls)

IsRequestLine(line) == StartsWith(line, 1, "REQUEST:\n ")

IsResponseLine(line) == StartsWith(line, 1, "RESPONSE:\n ")

IsDataLine(line) == StartsWith(line, 1, "DATA\n")

\* The latest call left every object that existed before it as it was.
PreUnchanged ==
  /\ Len(heap) >= Len(last.pre)
  /\ SubSeq(heap, 1, Len(last.pre)) = last.pre

\* v is an object created by the latest call, and it is empty.
FreshEmptyObject(v) ==
  /\ v.t = "ref"
  /\ v.n > Len(last.pre)
  /\ v.n <= Len(heap)
  /\ heap[v.n] = Obj(<<>>, <<>>)

(***************************************************************************)
(* reduceError.                                                            *)
(***************************************************************************)
\* C1: whenever reduceError is given an error whose response.status,
\* response.statusText and response.body are all truthy, it returns the
\* string "<status> - <statusText> (<JSON of body>)" and nothing else.
C1_FormattedString ==
  (last.op = "reduceError" /\ Complete(last.pre, last.arg)) =>
    LET r == Get(last.pre, last.arg, "response")
    IN  /\ ~last.threw
        /\ last.ret = Str(StringOf(last.pre, Get(last.pre, r, "status")) \o " - "
                          \o StringOf(last.pre, Get(last.pre, r, "statusText")) \o " ("
                          \o JSONStringify(last.pre, Get(last.pre, r, "body"), "").s \o ")")
        /\ last.arg = Ref(4) => last.ret.s = "404 - Not Found ({\"message\":\"gone\"})"
        /\ last.arg = Ref(6) => last.ret.s = "500 - Server Error (\"bad \\\"x\\\"\")"
        /\ last.arg = Ref(8) => last.ret.s = "500 - Internal ([1,null,\"a\"])"
        /\ heap = last.pre

\* C1 happens: an error with a complete response was reduced to a string.
C1_Witness ==
  /\ last.op = "reduceError"
  /\ last.arg = Ref(4)
  /\ last.ret.t = "string"

\* What reduceError returns for an error without a complete response: the
\* value it was given, or a new empty object when it was given nothing,
\* with every object as it was.
PassedThrough ==
  /\ ~last.threw
  /\ PreUnchanged
  /\ IF last.arg = Undef THEN FreshEmptyObject(last.ret)
     ELSE last.ret = last.arg /\ heap = last.pre

\* C2 as stated: for every error value that has no response, or whose
\* response lacks a truthy status, statusText or body, reduceError returns
\* the value it was given, unmodified; given nothing, an empty mapping.
C2_PassthroughAnyError ==
  (last.op = "reduceError" /\ ~Complete(last.pre, last.arg)) => PassedThrough

\* C2 as amended: the same for every error value other than null; given
\* null, reduceError raises a TypeError, the default value applying to
\* undefined only.
C2_PassthroughNonNull ==
  (last.op = "reduceError" /\ ~Complete(last.pre, last.arg)) =>
    IF last.arg = Null THEN last.threw /\ heap = last.pre ELSE PassedThrough

\* C2 happens: an error whose response has the status 0 came back as it
\* was given.
C2_Witness ==
  /\ last.op = "reduceError"
  /\ last.arg = Ref(10)
  /\ last.ret = Ref(10)

(***************************************************************************)
(* createRequestOptions.                                                   *)
(***************************************************************************)
\* C3: the value createRequestOptions returns for tenantId T, apiKey K and
\* accessToken A has securities.authorized.BearerAuth.value = A,
\* securities.authorized.ApiKeyAuth.value = K, serverVariables.ORGANIZATION
\* = T and no other keys; its requestBody is the body given, or a new empty
\* object when none was given.
C3_OptionsShape ==
  (last.op = "createRequestOptions" /\ ~last.threw) =>
    LET T == Get(last.pre, last.arg, "tenantId")
        K == Get(last.pre, last.arg, "apiKey")
        A == Get(last.pre, last.arg, "accessToken")
        body == Get(last.pre, last.arg, "body")
        o == last.ret
        sec == Get(heap, o, "securities")
        auth == Get(heap, sec, "authorized")
        sv == Get(heap, o, "serverVariables")
    IN  /\ o.t = "ref" /\ sec.t = "ref" /\ auth.t = "ref" /\ sv.t = "ref"
        /\ heap[o.n].keys = <<"requestBody", "securities", "serverVariables">>
        /\ heap[sec.n].keys = <<"authorized">>
        /\ heap[auth.n].keys = <<"BearerAuth", "ApiKeyAuth">>
        /\ Get(heap, auth, "BearerAuth").t = "ref"
        /\ heap[Get(heap, auth, "BearerAuth").n] = Obj(<<"value">>, <<A>>)
        /\ Get(heap, auth, "ApiKeyAuth").t = "ref"
        /\ heap[Get(heap, auth, "ApiKeyAuth").n] = Obj(<<"value">>, <<K>>)
        /\ heap[sv.n] = Obj(<<"ORGANIZATION">>, <<T>>)
        /\ IF body = Undef THEN FreshEmptyObject(Get(heap, o, "requestBody"))
           ELSE Get(heap, o, "requestBody") = body
        /\ last.arg = Ref(24) =>
             JSONStringify(heap, o, "").s
               = "{\"requestBody\":{},\"securities\":{\"authorized\":{\"BearerAuth\":{\"value\":\"A\"},\"ApiKeyAuth\":{\"value\":\"K\"}}},\"serverVariables\":{\"ORGANIZATION\":\"T\"}}"
        /\ last.arg = Ref(25) =>
             JSONStringify(heap, Get(heap, o, "requestBody"), "").s = "{\"x\":1}"

\* C3 happens: options were built for T, K, A with no body given.
C3_Witness ==
  /\ last.op = "createRequestOptions"
  /\ last.arg = Ref(24)
  /\ ~last.threw

\* The credentials and the body of the parameter object are in the options
\* as they were given.
ValuesPassedOn ==
  /\ ~last.threw
  /\ PreUnchanged
  /\ At(heap, last.ret, <<"securities", "authorized", "BearerAuth", "value">>)
       = Get(last.pre, last.arg, "accessToken")
  /\ At(heap, last.ret, <<"securities", "authorized", "ApiKeyAuth", "value">>)
       = Get(last.pre, last.arg, "apiKey")
  /\ At(heap, last.ret, <<"serverVariables", "ORGANIZATION">>)
       = Get(last.pre, last.arg, "tenantId")
  /\ Get(last.pre, last.arg, "body") # Undef =>
       Get(heap, last.ret, "requestBody") = Get(last.pre, last.arg, "body")

\* C6 as stated: createRequestOptions succeeds for any input, an absent
\* parameter object included, and passes the values on unchanged.
C6_AlwaysSucceeds ==
  last.op = "createRequestOptions" => ValuesPassedOn

\* C6 as amended: createRequestOptions validates nothing and succeeds for
\* every parameter value other than undefined and null, passing tenantId,
\* apiKey, accessToken and a null body on unchanged; given undefined or
\* null for the parameter object, it raises a TypeError.
C6_SucceedsOnObjects ==
  last.op = "createRequestOptions" =>
    IF Nullish(last.arg) THEN last.threw /\ heap = last.pre ELSE ValuesPassedOn

\* C6 happens: options were built from an empty tenantId, a number for the
\* apiKey, and null for the accessToken and the body.
C6_Witness ==
  /\ last.op = "createRequestOptions"
  /\ last.arg = Ref(26)
  /\ ~last.threw
  /\ Get(heap, last.ret, "requestBody") = Null

(***************************************************************************)
(* The interceptors.                                                       *)
(***************************************************************************)
\* The latest call returned the value it was given and changed no object.
ReturnedArgument ==
  /\ ~last.threw
  /\ last.ret = last.arg
  /\ heap = last.pre

\* C4 as stated: responseInterceptor never raises and returns the response
\* it was given, for any input, an absent or non-serializable one included.
C4_NeverRaises ==
  last.op = "responseInterceptor" => ReturnedArgument

\* C4 as amended: responseInterceptor does not raise and returns the
\* response it was given for every response that is neither undefined nor
\* null and that JSON.stringify can serialize, whatever its ok and its
\* text (valid JSON, other text, a text that is missing or cannot be
\* decoded); given undefined, null or a cyclic response, it raises.
C4_NeverRaisesOnSerializable ==
  last.op = "responseInterceptor" =>
    IF Nullish(last.arg) \/ ~Serializable(last.pre, last.arg)
    THEN last.threw /\ heap = last.pre
    ELSE ReturnedArgument

\* C4 happens: a response with ok = true and a text that is not JSON went
\* through the catch block and was returned.
C4_Witness ==
  /\ last.op = "responseInterceptor"
  /\ last.arg = Ref(34)
  /\ last.caught
  /\ ~last.threw

\* C5: requestInterceptor returns the request it was given, does not raise
\* and leaves every object as it was, for every request JSON.stringify can
\* serialize.
C5_RequestUntouched ==
  (last.op = "requestInterceptor" /\ Serializable(last.pre, last.arg)) =>
    ReturnedArgument

\* C5 happens: a request object with nested headers was intercepted.
C5_Witness ==
  /\ last.op = "requestInterceptor"
  /\ last.arg = Ref(30)
  /\ last.ret = Ref(30)
  /\ Len(LastLines) = 1

\* C7 as stated: after any sequence of interceptor calls, none of which
\* raised, the number of messages in the log equals the number of calls.
C7_OneLinePerCall ==
  tally.raised = 0 => Len(log) = tally.hooks

\* C7 as amended: a call of requestInterceptor that returns has written
\* exactly one message, the REQUEST message; a call of responseInterceptor
\* that returns has written the RESPONSE message alone when res.ok is
\* falsy, and the RESPONSE message followed by one DATA message when res.ok
\* is truthy; reduceError and createRequestOptions write none.  So after
\* interceptor calls that all returned, the log holds one message for each
\* call and one more for each response with a truthy ok.  The messages of a
\* call are the last of the log: nothing is held back.
C7_LinesPerCall ==
  /\ (last.op = "requestInterceptor" /\ ~last.threw) =>
       /\ Len(LastLines) = 1
       /\ IsRequestLine(LastLines[1].line)
  /\ (last.op = "responseInterceptor" /\ ~last.threw) =>
       /\ Len(LastLines) = (IF Falsy(Get(last.pre, last.arg, "ok")) THEN 1 ELSE 2)
       /\ IsResponseLine(LastLines[1].line)
       /\ Len(LastLines) = 2 => IsDataLine(LastLines[2].line)
  /\ last.op \in {"reduceError", "createRequestOptions"} => Len(LastLines) = 0
  /\ calls > 0 => LastLines = SubSeq(log, Len(log) - Len(LastLines) + 1, Len(log))
  /\ tally.raised = 0 => Len(log) = tally.hooks + tally.ok

\* C7 happens: a response with ok = true and JSON text was intercepted,
\* and two messages were written.
C7_Witness ==
  /\ last.op = "responseInterceptor"
  /\ last.arg = Ref(33)
  /\ ~last.threw
  /\ Len(LastLines) = 2
  /\ tally.raised = 0

\* C9: when responseInterceptor logs the raw text in its catch block, the
\* variable text holds the decoded text of the response: it was assigned
\* before whatever failed in the try block.
C9_FallbackLogsDecodedText ==
  (last.op = "responseInterceptor" /\ last.caught) =>
    /\ last.text.t = "string"
    /\ Len(LastLines) = 2
    /\ LastLines[2].line = "DATA\n " \o last.text.s

====
